---- MODULE Spec2Model ----
(***************************************************************************)
(* Model of crates/cli/src/utils/worker.rs: the multiple-producer /        *)
(* single-consumer dispatch of ast-grep.  run_worker creates an mpsc       *)
(* channel, builds the parallel walker, spawns one driver thread that runs *)
(* the walker (whose threads call the per-entry callback) and consumes the *)
(* receiving end on the calling thread.  run_std_in reads standard input,  *)
(* parses it to at most one item and consumes a one-item sequence.         *)
(***************************************************************************)
EXTENDS Integers, Sequences, FiniteSets, TLC

\* ------------------------------------------------------------------ bounds
\* Number of walker threads of the walk engine.
NWalkers == 2
\* Number of entries (discovery results) the walk reports at most.
MaxEntries == 3
\* Number of items the produce_item calls of one walk return at most, all
\* calls together.
MaxItems == 3

Walkers == 1..NWalkers

\* ------------------------------------------------------------- data types
\* Paths are sequences of components; "." is the current-directory component.
Paths == { <<".", "a">>, <<"a">> }

\* Option<T>
None == [some |-> FALSE]
Some(v) == [some |-> TRUE, val |-> v]

\* Result<DirEntry, ignore::Error>: an error, or an entry with an optional
\* file type (file_type() is None for the stdin entry) and a path.
Entries ==
  { [ok |-> FALSE] }
  \cup { [ok |-> TRUE, ftype |-> ft, path |-> p] :
           ft \in {"file", "dir", "none"}, p \in Paths }

\* The walk reports a regular file: a successful entry of file type "file".
IsRegularFile(result) == result.ok /\ result.ftype = "file"

\* An Item is opaque to the dispatcher; the model names it by the
\* produce_item call that made it and its position in the returned Vec.
ItemsOfCall(c, n) == [k \in 1..n |-> <<c, k>>]

\* The values produce_item may return for its c-th call: None, or Some(Vec)
\* of at most `left` items.
ProduceResults(c, left) ==
  { None } \cup { Some(ItemsOfCall(c, n)) : n \in 0..left }

\* Number of items in the results a log of produce_item calls holds.
RECURSIVE NumItems(_)
NumItems(l) ==
  IF l = << >> THEN 0
  ELSE (IF Head(l).some THEN Len(Head(l).val) ELSE 0) + NumItems(Tail(l))

\* The item parse_stdin may return.
StdinItem == <<0, 1>>

\* The items parse_stdin may return, one per call.
StdinItems == { StdinItem, <<0, 2>> }

VARIABLES
  api,            \* entry point called: "none", "run_path", "run_std_in"
  mainPc,         \* position of the calling thread
  setup,          \* outcome of build_walk / of reading stdin ("none" before)
  runResult,      \* value returned by run_path / run_std_in ("none" before)
  tx,             \* the original Sender is alive
  rx,             \* the Receiver: "none", "alive", "dropped"
  chan,           \* items buffered in the channel, oldest first
  driverPc,       \* driver thread: "unspawned", "running", "walked", "exited"
  wpc,            \* walker thread position
  wtx,            \* walker thread's callback holds a Sender clone
  wpath,          \* the candidate path p of the callback in progress
  wentry,         \* history: the walk result that callback was called with
  witems,         \* items of the current produce_item result not yet sent
  walkLen,        \* entries the walk will report (fixed by the tree walked)
  reported,       \* entries the walk has reported so far
  files,          \* history: regular-file entries the walk has reported
  scanned,        \* FileStats counter
  skipped,        \* FileStats counter
  log,            \* history: the result of every produce_item call, in order
  received,       \* the items the sequence has yielded to consume_items
  ended,          \* the sequence has returned None to consume_items
  consResult,     \* value consume_items returned ("none" before)
  consumeCallers, \* history: the threads that invoked consume_items
  parseCalls,     \* history: number of parse_stdin calls
  parseLog        \* history: the result of every parse_stdin call

vars == << api, mainPc, setup, runResult, tx, rx, chan, driverPc, wpc, wtx, wpath,
           wentry, witems, walkLen, reported, files, scanned, skipped, log, received, ended,
           consResult, consumeCallers, parseCalls, parseLog >>

chanVars  == << tx, rx, chan >>
walkVars  == << driverPc, wpc, wtx, wpath, wentry, witems, walkLen, reported, files,
               log >>
statVars  == << scanned, skipped >>
consVars  == << received, ended, consResult, consumeCallers >>
mainVars  == << api, mainPc, setup, runResult, parseCalls, parseLog >>

Init ==
  /\ api = "none"
  /\ mainPc = "start"
  /\ setup = "none"
  /\ runResult = "none"
  /\ tx = FALSE
  /\ rx = "none"
  /\ chan = << >>
  /\ driverPc = "unspawned"
  /\ wpc = [t \in Walkers |-> "unstarted"]
  /\ wtx = [t \in Walkers |-> FALSE]
  /\ wpath = [t \in Walkers |-> None]
  /\ wentry = [t \in Walkers |-> None]
  /\ witems = [t \in Walkers |-> << >>]
  /\ walkLen = 0
  /\ reported = 0
  /\ files = 0
  /\ scanned = 0
  /\ skipped = 0
  /\ log = << >>
  /\ received = << >>
  /\ ended = FALSE
  /\ consResult = "none"
  /\ consumeCallers = << >>
  /\ parseCalls = 0
  /\ parseLog = << >>

\* --------------------------------------------------------------- channel
\* Number of live Senders of the channel.
Senders == (IF tx THEN 1 ELSE 0) + Cardinality({t \in Walkers : wtx[t]})

\* mpsc::Sender::send on the unbounded channel: it never blocks; it fails
\* exactly when the Receiver has been dropped.
SendOk == rx = "alive"

\* ------------------------------------------------------------ Entry Filter
\* Path::strip_prefix("./"): the prefix is the single component ".".
\* strip_prefix that never finds the prefix.
strip_prefix_never(path) == None

\* Line 97: path.strip_prefix("./") compares components: it is Ok(rest) when
\* the first component of the path is `.`, and Err otherwise.
strip_prefix(path) ==
  IF Len(path) >= 1 /\ Head(path) = "." THEN Some(Tail(path)) ELSE None

filter_result(result) ==
  IF ~result.ok THEN None
  ELSE IF result.ftype = "none" THEN None
  ELSE IF result.ftype # "file" THEN None
  ELSE IF strip_prefix(result.path).some
       THEN Some(strip_prefix(result.path).val)
       ELSE Some(result.path)

\* ------------------------------------------------------------------ Stats
\* FileStats::add_scanned / add_skipped: atomic increments.
add_scanned == scanned' = scanned + 1
add_skipped == skipped' = skipped + 1

\* ------------------------------------------------ run_worker, calling thread
\* run_worker_build that does not return on a build_walk error and goes on
\* with an empty walk.
run_worker_build_ignores_error ==
  /\ mainPc = "start"
  /\ api' = "run_path"
  /\ \E ok \in BOOLEAN :
       /\ setup' = (IF ok THEN "Ok" ELSE "ErrBuild")
       /\ \E n \in 0..MaxEntries : walkLen' = (IF ok THEN n ELSE 0)
  /\ tx' = TRUE
  /\ rx' = "alive"
  /\ mainPc' = "built"
  /\ UNCHANGED << runResult, chan, parseCalls, parseLog, statVars, consVars >>
  /\ UNCHANGED << driverPc, wpc, wtx, wpath, wentry, witems, reported, files, log >>

\* Lines 104-106: create the channel and call build_walk.  On Err the `?`
\* returns the error; tx and rx go out of scope.
run_worker_build ==
  /\ mainPc = "start"
  /\ api' = "run_path"
  /\ \E ok \in BOOLEAN :
       IF ok
       THEN /\ setup' = "Ok"
            /\ tx' = TRUE
            /\ rx' = "alive"
            /\ mainPc' = "built"
            /\ runResult' = runResult
            /\ \E n \in 0..MaxEntries : walkLen' = n
       ELSE /\ setup' = "ErrBuild"
            /\ tx' = FALSE
            /\ rx' = "dropped"
            /\ mainPc' = "returned"
            /\ runResult' = "ErrBuild"
            /\ walkLen' = walkLen
  /\ UNCHANGED << chan, parseCalls, parseLog, statVars, consVars >>
  /\ UNCHANGED << driverPc, wpc, wtx, wpath, wentry, witems, reported, files, log >>

\* Line 108: std::thread::spawn moves tx, walker and w into the driver thread.
run_worker_spawn ==
  /\ mainPc = "built"
  /\ mainPc' = "spawned"
  /\ driverPc' = "running"
  /\ UNCHANGED << api, setup, runResult, parseCalls, parseLog, chanVars, statVars, consVars >>
  /\ UNCHANGED << wpc, wtx, wpath, wentry, witems, walkLen, reported, files, log >>

\* run_worker_consume with consume_items called from the spawned thread.
run_worker_consume_in_driver ==
  /\ mainPc = "spawned"
  /\ mainPc' = "consuming"
  /\ consumeCallers' = Append(consumeCallers, "driver")
  /\ UNCHANGED << api, setup, runResult, parseCalls, parseLog, chanVars, walkVars, statVars >>
  /\ UNCHANGED << received, ended, consResult >>

\* Line 133: worker.consume_items(Items(rx)) is called on the calling thread.
run_worker_consume ==
  /\ mainPc = "spawned"
  /\ mainPc' = "consuming"
  /\ consumeCallers' = Append(consumeCallers, "main")
  /\ UNCHANGED << api, setup, runResult, parseCalls, parseLog, chanVars, walkVars, statVars >>
  /\ UNCHANGED << received, ended, consResult >>

\* run_worker_return that discards the value of consume_items and returns
\* Ok(()).
run_worker_return_always_ok ==
  /\ api = "run_path"
  /\ mainPc = "consumed"
  /\ mainPc' = "returned"
  /\ runResult' = "Ok"
  /\ UNCHANGED << api, setup, parseCalls, parseLog, chanVars, walkVars, statVars, consVars >>

\* Line 133: the value of consume_items is the value of run_worker.
run_worker_return ==
  /\ api = "run_path"
  /\ mainPc = "consumed"
  /\ mainPc' = "returned"
  /\ runResult' = consResult
  /\ UNCHANGED << api, setup, parseCalls, parseLog, chanVars, walkVars, statVars, consVars >>

\* ---------------------------------------------------------- consume_items
\* Items::next with a receive that does not wait (try_recv): an empty
\* buffer ends the sequence even while a Sender is alive.
Items_next_nonblocking ==
  /\ mainPc = "consuming"
  /\ IF chan # << >>
     THEN /\ received' = Append(received, Head(chan))
          /\ chan' = Tail(chan)
          /\ ended' = ended
     ELSE /\ ended' = TRUE
          /\ UNCHANGED << received, chan >>
  /\ UNCHANGED << tx, rx, consResult, consumeCallers >>
  /\ UNCHANGED << mainVars, walkVars, statVars >>

\* Items::next, lines 64-70: a blocking recv.  It yields the oldest buffered
\* item; it returns None when the buffer is empty and every Sender has been
\* dropped; otherwise it blocks (the action is not enabled).
Items_next ==
  /\ mainPc = "consuming"
  /\ IF chan # << >>
     THEN /\ received' = Append(received, Head(chan))
          /\ chan' = Tail(chan)
          /\ ended' = ended
     ELSE /\ Senders = 0
          /\ ended' = TRUE
          /\ UNCHANGED << received, chan >>
  /\ UNCHANGED << tx, rx, consResult, consumeCallers >>
  /\ UNCHANGED << mainVars, walkVars, statVars >>

\* consume_items returns Ok or Err, after the end of the sequence or before
\* it; Items (the Receiver, with whatever is buffered) is dropped.
consume_items_return ==
  /\ mainPc = "consuming"
  /\ \E res \in {"Ok", "ErrConsume"} : consResult' = res
  /\ rx' = "dropped"
  /\ chan' = << >>
  /\ mainPc' = "consumed"
  /\ UNCHANGED << api, setup, runResult, parseCalls, parseLog, tx >>
  /\ UNCHANGED << received, ended, consumeCallers, walkVars, statVars >>

\* ------------------------------------------------------------ driver thread
\* Lines 110-111: walker.run calls the factory closure for a walker thread,
\* which clones tx for that thread's callback.  The driver calls the factory
\* for one thread after the other, so the threads start in order.
walker_start(t) ==
  /\ driverPc = "running"
  /\ wpc[t] = "unstarted"
  /\ \A u \in Walkers : u < t => wpc[u] # "unstarted"
  /\ wpc' = [wpc EXCEPT ![t] = "idle"]
  /\ wtx' = [wtx EXCEPT ![t] = tx]
  /\ UNCHANGED << mainVars, chanVars, statVars, consVars >>
  /\ UNCHANGED << driverPc, wpath, wentry, witems, walkLen, reported, files, log >>

\* A callback has returned WalkState::Quit (the walk engine's quit flag).
quit == \E t \in Walkers : wpc[t] = "quit"

\* A walker thread with no callback in progress ends when the walk has no
\* entry left to report, or when a callback has asked the walk to quit; its
\* callback, and the Sender clone it owns, is dropped.
walker_finish(t) ==
  /\ wpc[t] = "idle"
  /\ quit \/ reported = walkLen
  /\ wpc' = [wpc EXCEPT ![t] = "done"]
  /\ wtx' = [wtx EXCEPT ![t] = FALSE]
  /\ UNCHANGED << mainVars, chanVars, statVars, consVars >>
  /\ UNCHANGED << driverPc, wpath, wentry, witems, walkLen, reported, files, log >>

\* Line 131: walker.run returns once every walker thread has ended.
walker_run_return ==
  /\ driverPc = "running"
  /\ \A t \in Walkers : wpc[t] \in {"done", "quit"}
  /\ driverPc' = "walked"
  /\ UNCHANGED << mainVars, chanVars, statVars, consVars >>
  /\ UNCHANGED << wpc, wtx, wpath, wentry, witems, walkLen, reported, files, log >>

\* driver_exit when the driver closure was given a clone and the original
\* tx stays in run_worker's frame: the thread ends and tx is still alive.
driver_exit_keeps_tx ==
  /\ driverPc = "walked"
  /\ driverPc' = "exited"
  /\ tx' = tx
  /\ UNCHANGED << rx, chan, mainVars, statVars, consVars >>
  /\ UNCHANGED << wpc, wtx, wpath, wentry, witems, walkLen, reported, files, log >>

\* Line 132: the driver closure ends; the tx it owns is dropped.
driver_exit ==
  /\ driverPc = "walked"
  /\ driverPc' = "exited"
  /\ tx' = FALSE
  /\ UNCHANGED << rx, chan, mainVars, statVars, consVars >>
  /\ UNCHANGED << wpc, wtx, wpath, wentry, witems, walkLen, reported, files, log >>

\* ------------------------------------------------------- the walk callback
\* callback_filter without the add_scanned call.
callback_filter_no_scanned(t) ==
  /\ wpc[t] = "idle"
  /\ reported < walkLen
  /\ reported' = reported + 1
  /\ \E result \in Entries :
       /\ files' = files + (IF IsRegularFile(result) THEN 1 ELSE 0)
       /\ IF filter_result(result).some
          THEN /\ wpath' = [wpath EXCEPT ![t] = filter_result(result)]
               /\ wentry' = [wentry EXCEPT ![t] = Some(result)]
               /\ wpc' = [wpc EXCEPT ![t] = "produce"]
          ELSE UNCHANGED << wpath, wentry, wpc >>
  /\ UNCHANGED << scanned, skipped, mainVars, chanVars, consVars >>
  /\ UNCHANGED << driverPc, wtx, witems, walkLen, log >>

\* The callback where a discovery error makes the walker thread return
\* WalkState::Quit.
callback_on_error_quits(t, result) ==
  /\ wpc[t] = "idle"
  /\ reported < walkLen
  /\ reported' = reported + 1
  /\ files' = files + (IF IsRegularFile(result) THEN 1 ELSE 0)
  /\ IF filter_result(result).some
     THEN /\ wpath' = [wpath EXCEPT ![t] = filter_result(result)]
          /\ wentry' = [wentry EXCEPT ![t] = Some(result)]
          /\ add_scanned
          /\ wpc' = [wpc EXCEPT ![t] = "produce"]
          /\ wtx' = wtx
     ELSE /\ wpc' = [wpc EXCEPT ![t] = IF result.ok THEN "idle" ELSE "quit"]
          /\ wtx' = [wtx EXCEPT ![t] = IF result.ok THEN wtx[t] ELSE FALSE]
          /\ UNCHANGED << wpath, wentry, scanned >>
  /\ UNCHANGED << skipped, mainVars, chanVars, consVars >>
  /\ UNCHANGED << driverPc, witems, walkLen, log >>

\* The callback with a scanned counter updated by a separate read and write:
\* the increment is lost when another callback is between its own increment
\* and the end of its produce_item call.
callback_on_lost_increment(t, result) ==
  /\ wpc[t] = "idle"
  /\ reported < walkLen
  /\ reported' = reported + 1
  /\ files' = files + (IF IsRegularFile(result) THEN 1 ELSE 0)
  /\ IF filter_result(result).some
     THEN /\ wpath' = [wpath EXCEPT ![t] = filter_result(result)]
          /\ wentry' = [wentry EXCEPT ![t] = Some(result)]
          /\ scanned' = (IF \E u \in Walkers : wpc[u] = "produce"
                         THEN scanned ELSE scanned + 1)
          /\ wpc' = [wpc EXCEPT ![t] = "produce"]
     ELSE UNCHANGED << wpath, wentry, scanned, wpc >>
  /\ UNCHANGED << skipped, mainVars, chanVars, consVars >>
  /\ UNCHANGED << driverPc, wtx, witems, walkLen, log >>

\* Lines 113-118: the walk engine calls the callback of walker thread t with
\* `result`.  filter_result rejects errors and entries that are not regular
\* files, and the callback returns WalkState::Continue; otherwise scanned is
\* incremented and the callback goes on to produce_item with the path.
callback_on(t, result) ==
  /\ wpc[t] = "idle"
  /\ reported < walkLen
  /\ reported' = reported + 1
  /\ files' = files + (IF IsRegularFile(result) THEN 1 ELSE 0)
  /\ IF filter_result(result).some
     THEN /\ wpath' = [wpath EXCEPT ![t] = filter_result(result)]
          /\ wentry' = [wentry EXCEPT ![t] = Some(result)]
          /\ add_scanned
          /\ wpc' = [wpc EXCEPT ![t] = "produce"]
     ELSE UNCHANGED << wpath, wentry, scanned, wpc >>
  /\ UNCHANGED << skipped, mainVars, chanVars, consVars >>
  /\ UNCHANGED << driverPc, wtx, witems, walkLen, log >>

\* The walk reports its next entry, or an error, to a walker thread.
callback_filter(t) == \E result \in Entries : callback_on(t, result)

\* callback_produce that counts an empty Vec as skipped, like None.
callback_produce_empty_is_skipped(t) ==
  /\ wpc[t] = "produce"
  /\ \E r \in ProduceResults(Len(log) + 1, MaxItems - NumItems(log)) :
       /\ log' = Append(log, r)
       /\ IF r.some /\ r.val # << >>
          THEN /\ witems' = [witems EXCEPT ![t] = r.val]
               /\ wpc' = [wpc EXCEPT ![t] = "send"]
               /\ skipped' = skipped
          ELSE /\ witems' = witems
               /\ wpc' = [wpc EXCEPT ![t] = "idle"]
               /\ add_skipped
  /\ wpath' = [wpath EXCEPT ![t] = None]
  /\ wentry' = [wentry EXCEPT ![t] = None]
  /\ UNCHANGED << scanned, mainVars, chanVars, consVars >>
  /\ UNCHANGED << driverPc, wtx, walkLen, reported, files >>

\* callback_produce without the add_skipped call on None.
callback_produce_no_skipped(t) ==
  /\ wpc[t] = "produce"
  /\ \E r \in ProduceResults(Len(log) + 1, MaxItems - NumItems(log)) :
       /\ log' = Append(log, r)
       /\ IF r.some
          THEN /\ witems' = [witems EXCEPT ![t] = r.val]
               /\ wpc' = [wpc EXCEPT ![t] = IF r.val = << >> THEN "idle" ELSE "send"]
          ELSE /\ witems' = witems
               /\ wpc' = [wpc EXCEPT ![t] = "idle"]
  /\ wpath' = [wpath EXCEPT ![t] = None]
  /\ wentry' = [wentry EXCEPT ![t] = None]
  /\ UNCHANGED << scanned, skipped, mainVars, chanVars, consVars >>
  /\ UNCHANGED << driverPc, wtx, walkLen, reported, files >>

\* Lines 119-122: w.produce_item(&p) on the walker thread.  On None skipped
\* is incremented and the callback returns WalkState::Continue.
callback_produce(t) ==
  /\ wpc[t] = "produce"
  /\ \E r \in ProduceResults(Len(log) + 1, MaxItems - NumItems(log)) :
       /\ log' = Append(log, r)
       /\ IF r.some
          THEN /\ witems' = [witems EXCEPT ![t] = r.val]
               /\ wpc' = [wpc EXCEPT ![t] = IF r.val = << >> THEN "idle" ELSE "send"]
               /\ skipped' = skipped
          ELSE /\ witems' = witems
               /\ wpc' = [wpc EXCEPT ![t] = "idle"]
               /\ add_skipped
  /\ wpath' = [wpath EXCEPT ![t] = None]
  /\ wentry' = [wentry EXCEPT ![t] = None]
  /\ UNCHANGED << scanned, mainVars, chanVars, consVars >>
  /\ UNCHANGED << driverPc, wtx, walkLen, reported, files >>

\* callback_send on a channel whose send waits for a receiver: with the
\* Receiver gone the send never completes.
callback_send_blocking(t) ==
  /\ wpc[t] = "send"
  /\ SendOk
  /\ chan' = Append(chan, Head(witems[t]))
  /\ witems' = [witems EXCEPT ![t] = Tail(witems[t])]
  /\ wpc' = [wpc EXCEPT ![t] = IF Tail(witems[t]) = << >> THEN "idle" ELSE "send"]
  /\ UNCHANGED << tx, rx, wtx, mainVars, statVars, consVars >>
  /\ UNCHANGED << driverPc, wpath, wentry, walkLen, reported, files, log >>

\* callback_send on a bounded channel (sync_channel) of capacity 1: the
\* send waits while the buffer is full and the Receiver is alive.
callback_send_bounded(t) ==
  /\ wpc[t] = "send"
  /\ IF SendOk
     THEN /\ Len(chan) < 1
          /\ chan' = Append(chan, Head(witems[t]))
          /\ witems' = [witems EXCEPT ![t] = Tail(witems[t])]
          /\ wpc' = [wpc EXCEPT ![t] = IF Tail(witems[t]) = << >> THEN "idle" ELSE "send"]
          /\ wtx' = wtx
     ELSE /\ wpc' = [wpc EXCEPT ![t] = "quit"]
          /\ witems' = [witems EXCEPT ![t] = << >>]
          /\ wtx' = [wtx EXCEPT ![t] = FALSE]
          /\ chan' = chan
  /\ UNCHANGED << tx, rx, mainVars, statVars, consVars >>
  /\ UNCHANGED << driverPc, wpath, wentry, walkLen, reported, files, log >>

\* callback_send with a loop that ignores a failed send and goes on with
\* the next item.
callback_send_ignores_failure(t) ==
  /\ wpc[t] = "send"
  /\ chan' = (IF SendOk THEN Append(chan, Head(witems[t])) ELSE chan)
  /\ witems' = [witems EXCEPT ![t] = Tail(witems[t])]
  /\ wpc' = [wpc EXCEPT ![t] = IF Tail(witems[t]) = << >> THEN "idle" ELSE "send"]
  /\ UNCHANGED << tx, rx, wtx, mainVars, statVars, consVars >>
  /\ UNCHANGED << driverPc, wpath, wentry, walkLen, reported, files, log >>

\* callback_send with a loop that returns after the first item it sends.
callback_send_first_only(t) ==
  /\ wpc[t] = "send"
  /\ IF SendOk
     THEN /\ chan' = Append(chan, Head(witems[t]))
          /\ witems' = [witems EXCEPT ![t] = << >>]
          /\ wpc' = [wpc EXCEPT ![t] = "idle"]
          /\ wtx' = wtx
     ELSE /\ wpc' = [wpc EXCEPT ![t] = "quit"]
          /\ witems' = [witems EXCEPT ![t] = << >>]
          /\ wtx' = [wtx EXCEPT ![t] = FALSE]
          /\ chan' = chan
  /\ UNCHANGED << tx, rx, mainVars, statVars, consVars >>
  /\ UNCHANGED << driverPc, wpath, wentry, walkLen, reported, files, log >>

\* callback_send with a loop that takes the items from the back of the Vec.
callback_send_reversed(t) ==
  /\ wpc[t] = "send"
  /\ IF SendOk
     THEN /\ chan' = Append(chan, witems[t][Len(witems[t])])
          /\ witems' = [witems EXCEPT ![t] = SubSeq(witems[t], 1, Len(witems[t]) - 1)]
          /\ wpc' = [wpc EXCEPT ![t] =
                       IF Len(witems[t]) = 1 THEN "idle" ELSE "send"]
          /\ wtx' = wtx
     ELSE /\ wpc' = [wpc EXCEPT ![t] = "quit"]
          /\ witems' = [witems EXCEPT ![t] = << >>]
          /\ wtx' = [wtx EXCEPT ![t] = FALSE]
          /\ chan' = chan
  /\ UNCHANGED << tx, rx, mainVars, statVars, consVars >>
  /\ UNCHANGED << driverPc, wpath, wentry, walkLen, reported, files, log >>

\* Lines 123-129: one turn of the `for result in items` loop, or its end
\* (WalkState::Continue).  A failed send returns WalkState::Quit: the walk
\* engine ends the thread, and the callback (its Sender clone, the items
\* left) is dropped.
callback_send(t) ==
  /\ wpc[t] = "send"
  /\ IF SendOk
     THEN /\ chan' = Append(chan, Head(witems[t]))
          /\ witems' = [witems EXCEPT ![t] = Tail(witems[t])]
          /\ wpc' = [wpc EXCEPT ![t] = IF Tail(witems[t]) = << >> THEN "idle" ELSE "send"]
          /\ wtx' = wtx
     ELSE /\ wpc' = [wpc EXCEPT ![t] = "quit"]
          /\ witems' = [witems EXCEPT ![t] = << >>]
          /\ wtx' = [wtx EXCEPT ![t] = FALSE]
          /\ chan' = chan
  /\ UNCHANGED << tx, rx, mainVars, statVars, consVars >>
  /\ UNCHANGED << driverPc, wpath, wentry, walkLen, reported, files, log >>

\* ------------------------------------------------------------- run_std_in
\* run_std_in_parse that hands consume_items an empty sequence when
\* parse_stdin returns None.
run_std_in_parse_consumes_on_none ==
  /\ mainPc = "read"
  /\ parseCalls' = parseCalls + 1
  /\ \E parsed \in {None} \cup { Some(i) : i \in StdinItems } :
       /\ parseLog' = Append(parseLog, parsed)
       /\ chan' = (IF parsed.some THEN << parsed.val >> ELSE << >>)
  /\ mainPc' = "once"
  /\ rx' = "alive"
  /\ tx' = FALSE
  /\ UNCHANGED << api, setup, runResult, walkVars, statVars, consVars >>

\* run_std_in_parse with an Items::once that keeps its Sender alive.
run_std_in_parse_keeps_tx ==
  /\ mainPc = "read"
  /\ parseCalls' = parseCalls + 1
  /\ \E parsed \in {None} \cup { Some(i) : i \in StdinItems } :
       /\ parseLog' = Append(parseLog, parsed)
       /\ IF parsed.some
          THEN /\ mainPc' = "once"
               /\ chan' = << parsed.val >>
               /\ rx' = "alive"
               /\ tx' = TRUE
               /\ runResult' = runResult
          ELSE /\ mainPc' = "returned"
               /\ runResult' = "Ok"
               /\ UNCHANGED chanVars
  /\ UNCHANGED << api, setup, walkVars, statVars, consVars >>

\* Line 52: read standard input; on an I/O error the `?` returns it.
\* Line 53: parse_stdin(source).  Line 54: Items::once(item) (lines 73-81)
\* makes a channel, sends the item and drops tx when it returns.
run_std_in_read ==
  /\ mainPc = "start"
  /\ api' = "run_std_in"
  /\ \E readOk \in BOOLEAN :
       IF readOk
       THEN /\ setup' = "Ok"
            /\ mainPc' = "read"
            /\ runResult' = runResult
       ELSE /\ setup' = "ErrIo"
            /\ mainPc' = "returned"
            /\ runResult' = "ErrIo"
  /\ UNCHANGED << parseCalls, parseLog, chanVars, walkVars, statVars, consVars >>

run_std_in_parse ==
  /\ mainPc = "read"
  /\ parseCalls' = parseCalls + 1
  /\ \E parsed \in {None} \cup { Some(i) : i \in StdinItems } :
       /\ parseLog' = Append(parseLog, parsed)
       /\ IF parsed.some
          THEN /\ mainPc' = "once"
               /\ chan' = << parsed.val >>
               /\ rx' = "alive"
               /\ tx' = FALSE
               /\ runResult' = runResult
          ELSE /\ mainPc' = "returned"
               /\ runResult' = "Ok"
               /\ UNCHANGED chanVars
  /\ UNCHANGED << api, setup, walkVars, statVars, consVars >>

\* Line 54: self.consume_items(...) on the calling thread.
run_std_in_consume ==
  /\ mainPc = "once"
  /\ mainPc' = "consuming"
  /\ consumeCallers' = Append(consumeCallers, "main")
  /\ UNCHANGED << api, setup, runResult, parseCalls, parseLog, chanVars, walkVars, statVars >>
  /\ UNCHANGED << received, ended, consResult >>

\* Line 54: the value of consume_items is the value of run_std_in.
run_std_in_return ==
  /\ api = "run_std_in"
  /\ mainPc = "consumed"
  /\ mainPc' = "returned"
  /\ runResult' = consResult
  /\ UNCHANGED << api, setup, parseCalls, parseLog, chanVars, walkVars, statVars, consVars >>

\* ---------------------------------------------------------- specification
Next ==
  \/ run_worker_build
  \/ run_worker_spawn
  \/ run_worker_consume
  \/ run_worker_return
  \/ Items_next
  \/ consume_items_return
  \/ \E t \in Walkers : walker_start(t)
  \/ \E t \in Walkers : walker_finish(t)
  \/ walker_run_return
  \/ driver_exit
  \/ \E t \in Walkers : callback_filter(t)
  \/ \E t \in Walkers : callback_produce(t)
  \/ \E t \in Walkers : callback_send(t)
  \/ run_std_in_read
  \/ run_std_in_parse
  \/ run_std_in_consume
  \/ run_std_in_return

Spec == Init /\ [][Next]_vars

\* Every thread that can take a step eventually takes one; consume_items is
\* not required to return before its sequence has ended.
Progress ==
  \/ run_worker_build
  \/ run_worker_spawn
  \/ run_worker_consume
  \/ run_worker_return
  \/ Items_next
  \/ (ended /\ consume_items_return)
  \/ \E t \in Walkers : walker_start(t)
  \/ \E t \in Walkers : walker_finish(t)
  \/ walker_run_return
  \/ driver_exit
  \/ \E t \in Walkers : callback_filter(t)
  \/ \E t \in Walkers : callback_produce(t)
  \/ \E t \in Walkers : callback_send(t)
  \/ run_std_in_read
  \/ run_std_in_parse
  \/ run_std_in_consume
  \/ run_std_in_return

LiveSpec == Init /\ [][Next]_vars /\ WF_vars(Progress)

\* ------------------------------------------------------------ properties
\* The run is a run_path run whose build_walk succeeded.
PathRun == api = "run_path" /\ setup = "Ok"

\* The items of the results of all produce_item calls so far.
ProducedItems ==
  UNION { { log[c].val[k] : k \in 1..Len(log[c].val) } :
            c \in { d \in 1..Len(log) : log[d].some } }

\* The items the consumer has been given, as a set.
ReceivedItems == { received[i] : i \in 1..Len(received) }

\* No item occurs twice in what the consumer has been given.
NoDuplicates ==
  \A i, j \in 1..Len(received) : received[i] = received[j] => i = j

\* C1: in a run_path run whose build_walk succeeded and whose sequence has
\* been pulled to its end, the consumer has been given exactly the items of
\* all produce_item results: each of them once, and no other item.
C1_ExactDelivery ==
  (PathRun /\ ended) => (NoDuplicates /\ ReceivedItems = ProducedItems)

\* C1 witness: the sequence has ended after delivering items of two
\* different produce_item calls.
C1_Witness ==
  /\ PathRun /\ ended
  /\ \E i, j \in 1..Len(received) : received[i][1] # received[j][1]

\* C2: the items of one produce_item call reach the consumer in the order
\* they have in the returned Vec, whatever is delivered between them.
C2_OrderWithinCall ==
  \A i, j \in 1..Len(received) :
    (i < j /\ received[i][1] = received[j][1]) => received[i][2] < received[j][2]

\* C2 witness: an item of another call has been delivered between two items
\* of one call.
C2_Witness ==
  \E i, j, k \in 1..Len(received) :
    /\ i < j /\ j < k
    /\ received[i][1] = received[k][1]
    /\ received[j][1] # received[i][1]

\* C3: the sequence has signalled its end only if every Sender is dropped,
\* nothing is buffered, and (in a run_path run) the walk has completed: the
\* driver has exited, no callback is in progress and no item is left unsent.
C3_EndOnlyWhenClosedAndDrained ==
  ended =>
    /\ Senders = 0
    /\ chan = << >>
    /\ api = "run_path" =>
         /\ driverPc = "exited"
         /\ \A t \in Walkers : wpc[t] \in {"done", "quit"} /\ witems[t] = << >>

\* C3 witness: the sequence of a run_path run has ended after items were
\* delivered.
C3_Witness == PathRun /\ ended /\ received # << >> /\ mainPc = "consuming"

\* C4: once walker.run has returned in the driver thread, and with a
\* consumer that keeps pulling, every Sender gets dropped and run_path
\* returns: the consumer is not left blocked in recv.
C4_WalkDoneLeadsToReturn ==
  (PathRun /\ driverPc = "walked") ~> (Senders = 0 /\ mainPc = "returned")

\* C4 witness: the walk has completed, the driver has dropped tx, the
\* sequence has ended after delivering an item and run_path has returned.
C4_Witness ==
  /\ PathRun /\ driverPc = "exited" /\ Senders = 0
  /\ ended /\ received # << >> /\ mainPc = "returned"

\* consume_items has returned before the end of its sequence.
EarlyReturn == PathRun /\ consResult # "none" /\ ~ended

\* C5: when consume_items returns before the end of the sequence, run_path
\* returns the value consume_items returned, and the walk runs to its end:
\* no callback stays in a send.
C5_EarlyReturnNoDeadlock ==
  EarlyReturn ~>
    (/\ mainPc = "returned" /\ runResult = consResult
     /\ driverPc = "exited"
     /\ \A t \in Walkers : wpc[t] \in {"done", "quit"})

\* C5 witness: after an early return a send has failed, the walk has ended
\* and run_path has returned.
C5_Witness ==
  /\ EarlyReturn /\ mainPc = "returned" /\ driverPc = "exited"
  /\ \E t \in Walkers : wpc[t] = "quit"

\* C6: skipped never exceeds scanned.
C6_SkippedAtMostScanned == skipped <= scanned

\* C6 witness: a path has been skipped while a callback of another path is
\* between its add_scanned and the end of its produce_item call.
C6_Witness ==
  /\ PathRun /\ skipped >= 1 /\ skipped < scanned
  /\ \E t \in Walkers : wpc[t] = "produce"

\* Number of items a produce_item result holds: none for None.
ItemCount(r) == IF r.some THEN Len(r.val) ELSE 0

\* The run has finished with a consumer that pulled its sequence to the end.
FinishedDrained == PathRun /\ mainPc = "returned" /\ ended

\* The walk reported 3 regular files; produce_item gave 2 items for one of
\* them and no item (None, or an empty Vec) for the two others.
ScenarioNoItem ==
  /\ files = 3 /\ Len(log) = 3
  /\ \E c \in 1..3 :
       /\ ItemCount(log[c]) = 2
       /\ \A d \in (1..3) \ {c} : ItemCount(log[d]) = 0

\* The same scenario with produce_item returning None for the two others.
ScenarioNone ==
  /\ files = 3 /\ Len(log) = 3
  /\ \E c \in 1..3 :
       /\ ItemCount(log[c]) = 2
       /\ \A d \in (1..3) \ {c} : ~log[d].some

\* C7 as stated: 3 regular files, one mapped to 2 items and two mapped to 0
\* items, give scanned = 3, skipped = 2 and 2 items received.
C7_AsStated ==
  (FinishedDrained /\ ScenarioNoItem) =>
    (scanned = 3 /\ skipped = 2 /\ Len(received) = 2)

\* C7 amended: 3 regular files, one mapped to 2 items and two for which
\* produce_item returns None, give scanned = 3, skipped = 2 and 2 items
\* received.
C7_ScenarioWithNone ==
  (FinishedDrained /\ ScenarioNone) =>
    (scanned = 3 /\ skipped = 2 /\ Len(received) = 2)

\* C7 witness: the scenario has run to its end.
C7_Witness == FinishedDrained /\ ScenarioNone

\* C8: a build_walk error returns from run_path at once: no driver thread,
\* no walker thread, no produce_item call, no Stats change, no consume_items
\* call.  A stdin read error returns from run_std_in at once: no parse_stdin
\* call, no consume_items call.
C8_SetupErrorIsFatal ==
  /\ setup = "ErrBuild" =>
       /\ mainPc = "returned" /\ runResult = "ErrBuild"
       /\ driverPc = "unspawned"
       /\ \A t \in Walkers : wpc[t] = "unstarted"
       /\ log = << >> /\ scanned = 0 /\ skipped = 0
       /\ consumeCallers = << >> /\ consResult = "none"
  /\ setup = "ErrIo" =>
       /\ mainPc = "returned" /\ runResult = "ErrIo"
       /\ parseCalls = 0
       /\ consumeCallers = << >> /\ consResult = "none"

\* C8 witness: build_walk has failed.
C8_Witness == api = "run_path" /\ setup = "ErrBuild"

\* C9: when build_walk succeeded, run_path has no result before it returns
\* and returns the value consume_items returned.
C9_ResultIsConsumerResult ==
  PathRun =>
    IF mainPc = "returned"
    THEN consResult \in {"Ok", "ErrConsume"} /\ runResult = consResult
    ELSE runResult = "none"

\* C9 witness: run_path has returned Ok although an entry was discarded, a
\* path was skipped and a send failed.
C9_Witness ==
  /\ PathRun /\ mainPc = "returned" /\ runResult = "Ok"
  /\ reported > scanned /\ skipped >= 1 /\ quit

WalkInProgress == driverPc = "running"

\* C11 as stated: run_path has returned while the walk is in progress only
\* if consume_items returned an error.
C11_AsStated ==
  (PathRun /\ mainPc = "returned" /\ WalkInProgress) => runResult = "ErrConsume"

\* C11 amended: run_path has returned while the walk is in progress only if
\* consume_items returned before the end of its sequence, with Ok or with an
\* error.
C11_ReturnsDuringWalkOnlyOnEarlyReturn ==
  (PathRun /\ mainPc = "returned" /\ WalkInProgress) => EarlyReturn

\* C11 witness: run_path has returned Ok while a callback is in progress.
C11_Witness ==
  /\ PathRun /\ mainPc = "returned" /\ WalkInProgress /\ runResult = "Ok"
  /\ \E t \in Walkers : wpc[t] \in {"produce", "send"}

\* The run is a run_std_in run whose read of standard input succeeded.
StdinRun == api = "run_std_in" /\ setup = "Ok"

\* C12: when standard input was read and parse_stdin returned no item,
\* run_std_in has returned Ok and consume_items has not been invoked.
C12_NoItemNoConsume ==
  (StdinRun /\ parseLog = << None >>) =>
    /\ mainPc = "returned" /\ runResult = "Ok"
    /\ consumeCallers = << >> /\ consResult = "none"
    /\ received = << >> /\ ~ended

\* C12 witness: parse_stdin has returned no item.
C12_Witness == StdinRun /\ parseLog = << None >> /\ mainPc = "returned"

\* C13: when parse_stdin returned an item, consume_items is invoked once,
\* on a sequence whose only Sender is already dropped: a pull never blocks,
\* the first pull yields that item, the sequence ends after it, and
\* run_std_in returns the value consume_items returned.
C13_OneItemSequence ==
  (StdinRun /\ Len(parseLog) = 1 /\ parseLog[1].some) =>
    /\ Senders = 0
    /\ Len(consumeCallers) <= 1
    /\ mainPc \in {"consuming", "consumed", "returned"}
         => consumeCallers = << "main" >>
    /\ mainPc = "consuming" => (chan # << >> \/ Senders = 0)
    /\ rx = "alive" => received \o chan = << parseLog[1].val >>
    /\ ended => received = << parseLog[1].val >>
    /\ mainPc = "returned" =>
         consResult \in {"Ok", "ErrConsume"} /\ runResult = consResult

\* C13 witness: the item was pulled, the next pull ended the sequence and
\* run_std_in has returned.
C13_Witness ==
  /\ StdinRun /\ Len(parseLog) = 1 /\ parseLog[1].some
  /\ ended /\ received = << parseLog[1].val >> /\ mainPc = "returned"

\* A discovery error, as the walk engine hands it to the callback.
ErrEntry == [ok |-> FALSE]

\* C14: a callback called with a discovery error calls no produce_item,
\* sends no item, leaves scanned and skipped alone and returns Continue (no
\* walker thread changes position, the walk is not asked to quit), so the
\* walk goes on with the sibling entries; and every item the consumer
\* receives was produced for an entry that passed the filter.
C14_ErrorIsNonFatal ==
  /\ [][\A t \in Walkers :
          callback_on(t, ErrEntry) =>
            /\ log' = log /\ chan' = chan
            /\ scanned' = scanned /\ skipped' = skipped
            /\ wpc' = wpc /\ wtx' = wtx /\ wpath' = wpath
            /\ (quit' <=> quit)]_vars
  /\ [](PathRun => (ReceivedItems \subseteq ProducedItems /\ Len(log) <= files))

\* C14 witness: of two reported entries one was rejected by the filter (a
\* discovery error is rejected without a trace), the walk has not been asked
\* to quit, and an item of the sibling entry has reached the consumer.
C14_Witness ==
  /\ PathRun /\ reported = 2 /\ files = 1 /\ scanned = 1
  /\ ~quit /\ Len(received) >= 1

\* The path filter_result is to deliver for a discovered path: the path
\* without its leading `.` component when it has one, the path otherwise.
DeliveredPath(path) ==
  IF path # << >> /\ path[1] = "." THEN SubSeq(path, 2, Len(path)) ELSE path

\* C15: a callback at produce_item was called with a regular-file entry and
\* passes the discovered path with a leading `./` removed, or unchanged when
\* there is none; every produce_item call, made or about to be made, stands
\* for one regular-file entry, so no other entry reaches produce_item.
C15_StrippedPathReachesProduce ==
  /\ \A t \in Walkers :
       wpc[t] = "produce" =>
         /\ wentry[t].some /\ IsRegularFile(wentry[t].val)
         /\ wpath[t] = Some(DeliveredPath(wentry[t].val.path))
  /\ Len(log) + Cardinality({ t \in Walkers : wpc[t] = "produce" }) = files

\* C15 witness: one callback is at produce_item with a path that had the
\* prefix, another with a path that did not, and a directory was rejected.
C15_Witness ==
  /\ \E t \in Walkers :
       /\ wpc[t] = "produce"
       /\ wentry[t].val.path = << ".", "a" >> /\ wpath[t] = Some(<< "a" >>)
  /\ \E t \in Walkers :
       /\ wpc[t] = "produce"
       /\ wentry[t].val.path = << "a" >> /\ wpath[t] = Some(<< "a" >>)
  /\ reported = 3 /\ files = 2

\* Number of produce_item calls of a log that returned None.
RECURSIVE NoneCount(_)
NoneCount(l) ==
  IF l = << >> THEN 0
  ELSE (IF Head(l).some THEN 0 ELSE 1) + NoneCount(Tail(l))

\* walker.run has returned: every callback of the walk has returned.
WalkCompleted == driverPc \in {"walked", "exited"}

\* C16: once the walk has completed, scanned is the number of entries that
\* passed the filter, which is the number of produce_item calls, and skipped
\* is the number of those calls that returned None; before that no increment
\* is missing either, and no step lowers a counter.
C16_ExactAccounting ==
  /\ [](WalkCompleted =>
          /\ scanned = files /\ scanned = Len(log)
          /\ skipped = NoneCount(log))
  /\ [](scanned = files /\ skipped = NoneCount(log))
  /\ [][scanned' >= scanned /\ skipped' >= skipped]_vars

\* C16 witness: a completed walk in which two walker threads made the three
\* produce_item calls, two of which returned None.
C16_Witness ==
  /\ WalkCompleted /\ \A t \in Walkers : wpc[t] = "done"
  /\ scanned = 3 /\ Len(log) = 3 /\ skipped = 2 /\ reported = 3

\* Walker thread t is inside a callback past the filter.
InFlight(t) == wpc[t] \in {"produce", "send"}

\* C17: a callback whose send finds the Receiver dropped returns Quit at
\* that step: the items left are dropped unsent, nothing enters the channel,
\* skipped and scanned keep their values (scanned counts the path, skipped
\* does not), and no other walker thread changes position.  A callback in
\* flight is ended only by its own steps, and walker.run does not return
\* while one is in flight.
C17_FailedSendQuits ==
  /\ [][\A t \in Walkers :
          (/\ wpc[t] = "send" /\ ~SendOk
           /\ (wpc'[t] # wpc[t] \/ witems'[t] # witems[t])) =>
            /\ wpc'[t] = "quit" /\ witems'[t] = << >>
            /\ chan' = chan /\ log' = log
            /\ skipped' = skipped /\ scanned' = scanned
            /\ skipped = NoneCount(log) /\ scanned = files
            /\ \A u \in Walkers \ {t} :
                 wpc'[u] = wpc[u] /\ witems'[u] = witems[u]]_vars
  /\ [][\A u \in Walkers :
          (InFlight(u) /\ wpc'[u] # wpc[u]) =>
            (callback_produce(u) \/ callback_send(u))]_vars
  /\ [](\A t \in Walkers : wpc[t] = "quit" => witems[t] = << >>)
  /\ [](WalkCompleted => \A u \in Walkers : ~InFlight(u))

\* C17 witness: a callback with two items left to send has returned Quit
\* with the channel empty, while another walker thread is still inside its
\* produce_item call.
C17_Witness ==
  /\ \E t \in Walkers :
       /\ wpc[t] = "quit"
       /\ \E u \in Walkers \ {t} : wpc[u] = "produce"
  /\ Len(log) = 1 /\ log[1].some /\ Len(log[1].val) = 2
  /\ received = << >> /\ chan = << >> /\ rx = "dropped"

\* A step of the walk: of the driver inside walker.run, or of a walker
\* thread.
WalkStep ==
  \/ \E t \in Walkers :
       \/ walker_start(t) \/ walker_finish(t)
       \/ callback_filter(t) \/ callback_produce(t) \/ callback_send(t)
  \/ walker_run_return

\* C18: a walker thread at a send can always take its step, whatever the
\* channel holds and whatever the consumer does: the send appends to the
\* buffer when the Receiver is alive and fails when it is dropped.  While
\* walker.run is running some step of the walk is enabled, so the walk
\* completes without any pull by consume_items.
C18_SendNeverBlocks ==
  /\ [](\A t \in Walkers : wpc[t] = "send" => ENABLED callback_send(t))
  /\ [](WalkInProgress => ENABLED WalkStep)
  /\ [][\A t \in Walkers :
          (wpc[t] = "send" /\ witems'[t] # witems[t]) =>
            IF SendOk THEN chan' = Append(chan, Head(witems[t]))
            ELSE wpc'[t] = "quit" /\ chan' = chan]_vars

\* C18 witness: the walk has completed and the driver thread has exited
\* with every item still buffered, consume_items having pulled nothing.
C18_Witness ==
  /\ driverPc = "exited" /\ mainPc = "consuming"
  /\ Len(chan) = MaxItems /\ received = << >> /\ ~ended /\ rx = "alive"

\* The step is a produce_item call that returns Some(vec![]).
ProducedEmpty ==
  /\ Len(log') = Len(log) + 1
  /\ log'[Len(log')].some /\ log'[Len(log')].val = << >>

\* C19: a callback whose produce_item returns an empty Vec has incremented
\* scanned (scanned counts this call), leaves skipped alone, sends nothing
\* and returns Continue: the thread is ready for the next entry and the walk
\* is not asked to quit.
C19_EmptyVecIsNotSkipped ==
  [][ProducedEmpty =>
       /\ scanned' = scanned /\ scanned >= Len(log')
       /\ skipped' = skipped /\ skipped' = NoneCount(log')
       /\ chan' = chan /\ witems' = witems
       /\ \E t \in Walkers :
            /\ wpc[t] = "produce" /\ wpc'[t] = "idle" /\ wtx'[t] = wtx[t]
            /\ \A u \in Walkers \ {t} : wpc'[u] = wpc[u]
       /\ (quit' <=> quit)]_vars

\* C19 witness: the first produce_item call returned an empty Vec, nothing
\* was skipped or sent for it, and the walk went on to a second entry whose
\* item was received.
C19_Witness ==
  /\ Len(log) = 2 /\ log[1].some /\ log[1].val = << >>
  /\ scanned = 2 /\ skipped = 0
  /\ received = << <<2, 1>> >> /\ ~quit

\* A step of a walk callback that changes a counter.
CounterStep ==
  \E t \in Walkers :
    /\ callback_filter(t) \/ callback_produce(t)
    /\ scanned' # scanned \/ skipped' # skipped

\* C20: when the sequence of a run_path run has signalled its end, the
\* driver thread has exited, no callback is in progress and none can start,
\* and no later step changes scanned or skipped.  When consume_items has
\* returned, run_path can return whatever the driver thread is doing.
C20_StatsFinalAfterEnd ==
  /\ []((PathRun /\ ended) =>
          /\ driverPc = "exited" /\ reported <= walkLen
          /\ \A t \in Walkers : wpc[t] \in {"done", "quit"}
          /\ \A t \in Walkers :
               ~ENABLED (callback_filter(t) \/ callback_produce(t) \/ callback_send(t))
          /\ ~ENABLED CounterStep)
  /\ [][ended => (scanned' = scanned /\ skipped' = skipped)]_vars
  /\ []((PathRun /\ mainPc = "consumed") => ENABLED run_worker_return)

\* C20 witness: consume_items returned before the end of the sequence and
\* run_path has returned, while the walk is in progress and a callback step
\* that changes a counter is still to come.
C20_Witness ==
  /\ PathRun /\ EarlyReturn /\ mainPc = "returned" /\ WalkInProgress
  /\ scanned = 1 /\ ENABLED CounterStep

\* The other case of C20: the sequence has ended after a walk that counted.
C20_EndSeen ==
  PathRun /\ ended /\ mainPc = "returned" /\ scanned = 3 /\ skipped = 1

====
